---- MODULE Spec2Model ----
(***************************************************************************)
(* Rubik cube state engine (src/rubik/model.py) and its controller         *)
(* (src/rubik/controller.py).                                              *)
(*                                                                         *)
(* A cube object is modelled by                                            *)
(*   _size, _coord_limit : the two integer attributes of Rubik,            *)
(*   _pieces             : the dict position -> Piece, as the sequence of  *)
(*                         its items in insertion order, each item a       *)
(*                         record [key, ref] with ref the Piece object,    *)
(*   heap                : the Piece objects, ref -> [x, y, z] labels,     *)
(*   nextRef             : the next unused object reference.               *)
(* last, result and before record the call last made (its name and        *)
(* argument, what it returned or raised, the cube before it); in the       *)
(* specifications that run a call step by step (SpecSteps, SpecCli) last   *)
(* is the frame of the call in progress.                                   *)
(* Python strings are sequences of items (an item is a run of non-blank    *)
(* characters or one whitespace character); Str gives the string's text.   *)
(***************************************************************************)
EXTENDS Integers, Sequences, FiniteSets, TLC

VARIABLES _size, _coord_limit, _pieces, heap, nextRef,
          last, result, before, calls

vars == <<_size, _coord_limit, _pieces, heap, nextRef, last, result, before, calls>>

\* Bound on the number of controller calls in one behaviour.
MaxCalls == 2

\* Cube sizes constructed in Init.
Sizes == {1, 3}

-----------------------------------------------------------------------------
\* Position.ATTR_MAP: axis name -> index of the coordinate (1-based here).
ATTR_MAP == [a \in {"x", "y", "z"} |-> CASE a = "x" -> 1 [] a = "y" -> 2 [] a = "z" -> 3]

\* Position.__getattr__: position.x, position.y, position.z.
Position_getattr(position, attr) == position[ATTR_MAP[attr]]

\* Piece.__init__: a piece holds the three labels x, y, z.
Piece(colors) == [x |-> colors[1], y |-> colors[2], z |-> colors[3]]

\* Piece.rotate that leaves the labels where they are.
Piece_rotate_none(p, axis) == p

\* Piece.rotate that moves the three labels round by one place.
Piece_rotate_cycle(p, axis) == [x |-> p.y, y |-> p.z, z |-> p.x]

\* Piece.rotate that writes one label twice on the x axis.
Piece_rotate_dup(p, axis) ==
    IF axis = "x" THEN [x |-> p.x, y |-> p.z, z |-> p.z]
    ELSE IF axis = "y" THEN [x |-> p.z, y |-> p.y, z |-> p.x]
    ELSE IF axis = "z" THEN [x |-> p.y, y |-> p.x, z |-> p.z]
    ELSE p

\* Piece.rotate that exchanges the wrong pair on the y axis.
Piece_rotate_wrong_pair(p, axis) ==
    IF axis = "x" THEN [x |-> p.x, y |-> p.z, z |-> p.y]
    ELSE IF axis = "y" THEN [x |-> p.y, y |-> p.x, z |-> p.z]
    ELSE IF axis = "z" THEN [x |-> p.y, y |-> p.x, z |-> p.z]
    ELSE p

\* Piece.rotate: exchange the two labels that are not on the axis.
Piece_rotate(p, axis) ==
    IF axis = "x" THEN [x |-> p.x, y |-> p.z, z |-> p.y]
    ELSE IF axis = "y" THEN [x |-> p.z, y |-> p.y, z |-> p.x]
    ELSE IF axis = "z" THEN [x |-> p.y, y |-> p.x, z |-> p.z]
    ELSE p

-----------------------------------------------------------------------------
\* The state v that the statements run so far have left is a value, not a
\* computation still to be made, when the next statement starts.
Evaluated(v) == v = v

\* The function f on the arguments in S only, as the table of its values.
Restrict(f, S) == [x \in S |-> f[x]] @@ <<>>

\* dict: keys of the mapping.
DictKeys(d) == {d[i].key : i \in 1..Len(d)}

\* dict.__setitem__: overwrite the value of a present key in place, else append.
DictSet(d, k, v) ==
    IF \E i \in 1..Len(d) : d[i].key = k
    THEN [d EXCEPT ![CHOOSE i \in 1..Len(d) : d[i].key = k] = [key |-> k, ref |-> v]]
    ELSE Append(d, [key |-> k, ref |-> v])

\* dict.__getitem__ for a present key (Rubik.__getitem__).
DictGet(d, k) == d[CHOOSE i \in 1..Len(d) : d[i].key = k].ref

-----------------------------------------------------------------------------
\* _get_init_piece_color with the two colors of the x axis exchanged.
_get_init_piece_color_swapped(position, coord_limit) ==
    LET color_x == IF Position_getattr(position, "x") = coord_limit THEN "RED"
                   ELSE IF Position_getattr(position, "x") = -coord_limit THEN "ORANGE"
                   ELSE "None"
        color_y == IF Position_getattr(position, "y") = coord_limit THEN "YELLOW"
                   ELSE IF Position_getattr(position, "y") = -coord_limit THEN "WHITE"
                   ELSE "None"
        color_z == IF Position_getattr(position, "z") = coord_limit THEN "GREEN"
                   ELSE IF Position_getattr(position, "z") = -coord_limit THEN "BLUE"
                   ELSE "None"
    IN <<color_x, color_y, color_z>>

\* Rubik._get_init_piece_color
_get_init_piece_color(position, coord_limit) ==
    LET color_x == IF Position_getattr(position, "x") = coord_limit THEN "ORANGE"
                   ELSE IF Position_getattr(position, "x") = -coord_limit THEN "RED"
                   ELSE "None"
        color_y == IF Position_getattr(position, "y") = coord_limit THEN "YELLOW"
                   ELSE IF Position_getattr(position, "y") = -coord_limit THEN "WHITE"
                   ELSE "None"
        color_z == IF Position_getattr(position, "z") = coord_limit THEN "GREEN"
                   ELSE IF Position_getattr(position, "z") = -coord_limit THEN "BLUE"
                   ELSE "None"
    IN <<color_x, color_y, color_z>>

\* len(range(-coord_limit, coord_limit + 1)); an empty range has length 0.
RangeLen(coord_limit) == IF 2 * coord_limit + 1 > 0 THEN 2 * coord_limit + 1 ELSE 0

\* The k-th position (k = 0, 1, ...) of the three nested loops over
\* range(-coord_limit, coord_limit + 1) in _generate_init_pieces.
InitPosition(k, coord_limit) ==
    LET m == RangeLen(coord_limit)
    IN <<(k \div (m * m)) - coord_limit, ((k \div m) % m) - coord_limit, (k % m) - coord_limit>>

\* The body of the innermost loop, self._pieces[position] = Piece(...),
\* at the k-th position.
GenIteration(c, k, coord_limit) ==
    [_pieces |-> DictSet(c._pieces, InitPosition(k, coord_limit), c.nextRef),
     heap    |-> (c.nextRef :> Piece(_get_init_piece_color(InitPosition(k, coord_limit), coord_limit)))
                 @@ c.heap,
     nextRef |-> c.nextRef + 1]

\* The iterations lo..hi of the nested loops, in order, from cube state c:
\* one iteration is the body, a longer run is its first half and then
\* the rest.
RECURSIVE GenLoop(_, _, _, _)
GenLoop(c, lo, hi, coord_limit) ==
    IF lo > hi THEN c
    ELSE IF lo = hi THEN GenIteration(c, lo, coord_limit)
    ELSE CASE Evaluated(c) ->
              GenLoop(GenLoop(c, lo, (lo + hi) \div 2, coord_limit),
                      ((lo + hi) \div 2) + 1, hi, coord_limit)

\* Piece objects no longer referenced from the dict are gone.
Collect(c) ==
    [c EXCEPT !.heap = Restrict(c.heap, {c._pieces[i].ref : i \in 1..Len(c._pieces)})]

\* Rubik._generate_init_pieces: a new Piece is stored under every position
\* of the range, into the dict the cube already has.
_generate_init_pieces(c, coord_limit) ==
    Collect(GenLoop(c, 0, RangeLen(coord_limit) * RangeLen(coord_limit) * RangeLen(coord_limit) - 1,
                    coord_limit))

\* Rubik.__init__
Rubik(size) ==
    _generate_init_pieces([_pieces |-> <<>>, heap |-> <<>>, nextRef |-> 1], size \div 2)

-----------------------------------------------------------------------------
Abs(n) == IF n < 0 THEN -n ELSE n

\* (config.x, config.y, config.z)[list(map(abs, rotation)).index(1)]
AxisOf(rotation) ==
    LET i == CHOOSE j \in 1..3 : Abs(rotation[j]) = 1 /\ \A k \in 1..(j - 1) : Abs(rotation[k]) # 1
    IN <<"x", "y", "z">>[i]

\* The direction with the inverse flag left out.
Direction_no_inverse(rotation, inverse) == rotation

\* tuple(map(lambda x: x * (-1)**inverse, rotation))
Direction(rotation, inverse) ==
    [j \in 1..3 |-> IF inverse THEN -rotation[j] ELSE rotation[j]]

\* The chain with a slip in the row of direction (0, 1, 0).
NewPosition_typo(position, direction) ==
    LET x == position[1]
        y == position[2]
        z == position[3]
    IN CASE direction = <<1, 0, 0>>  -> <<x, z, -y>>
         [] direction = <<-1, 0, 0>> -> <<x, -z, y>>
         [] direction = <<0, 1, 0>>  -> <<-z, y, z>>
         [] direction = <<0, -1, 0>> -> <<z, y, -x>>
         [] direction = <<0, 0, 1>>  -> <<y, -x, z>>
         [] direction = <<0, 0, -1>> -> <<-y, x, z>>

\* The chain with the rows of (0, 0, 1) and (0, 0, -1) exchanged.
NewPosition_mirrored(position, direction) ==
    LET x == position[1]
        y == position[2]
        z == position[3]
    IN CASE direction = <<1, 0, 0>>  -> <<x, z, -y>>
         [] direction = <<-1, 0, 0>> -> <<x, -z, y>>
         [] direction = <<0, 1, 0>>  -> <<-z, y, x>>
         [] direction = <<0, -1, 0>> -> <<z, y, -x>>
         [] direction = <<0, 0, 1>>  -> <<-y, x, z>>
         [] direction = <<0, 0, -1>> -> <<y, -x, z>>

\* The if/elif chain of _make_rotation that gives the new position.
NewPosition(position, direction) ==
    LET x == position[1]
        y == position[2]
        z == position[3]
    IN CASE direction = <<1, 0, 0>>  -> <<x, z, -y>>
         [] direction = <<-1, 0, 0>> -> <<x, -z, y>>
         [] direction = <<0, 1, 0>>  -> <<-z, y, x>>
         [] direction = <<0, -1, 0>> -> <<z, y, -x>>
         [] direction = <<0, 0, 1>>  -> <<y, -x, z>>
         [] direction = <<0, 0, -1>> -> <<-y, x, z>>

\* The selection with the sign of the rotation vector left out.
Selected_no_sign(position, rotation, coord_limit) ==
    Position_getattr(position, AxisOf(rotation)) = coord_limit

\* The selection of the slice next to the outer one.
Selected_inner(position, rotation, coord_limit) ==
    Position_getattr(position, AxisOf(rotation))
        = (rotation[1] + rotation[2] + rotation[3]) * (coord_limit - 1)

\* Whether the loop of _make_rotation selects the item at this position.
Selected(position, rotation, coord_limit) ==
    Position_getattr(position, AxisOf(rotation)) = (rotation[1] + rotation[2] + rotation[3]) * coord_limit

\* The body of the loop of _make_rotation for one item of
\* self.pieces.items(): st holds new_pieces, the dict being built, and the
\* Piece objects.
RotationIteration(st, item, rotation, inverse, coord_limit) ==
    IF Selected(item.key, rotation, coord_limit)
    THEN [new_pieces |-> DictSet(st.new_pieces,
                                 NewPosition(item.key, Direction(rotation, inverse)), item.ref),
          heap       |-> [st.heap EXCEPT ![item.ref] = Piece_rotate(st.heap[item.ref], AxisOf(rotation))]]
    ELSE [new_pieces |-> DictSet(st.new_pieces, item.key, item.ref), heap |-> st.heap]

\* The loop of _make_rotation over the items lo..hi, in order, from st: one
\* item is one run of the body, a longer run is its first half and then
\* the rest.
RECURSIVE RotationLoop(_, _, _, _, _, _, _)
RotationLoop(st, items, lo, hi, rotation, inverse, coord_limit) ==
    IF lo > hi THEN st
    ELSE IF lo = hi THEN RotationIteration(st, items[lo], rotation, inverse, coord_limit)
    ELSE CASE Evaluated(st) ->
              RotationLoop(RotationLoop(st, items, lo, (lo + hi) \div 2, rotation, inverse, coord_limit),
                           items, ((lo + hi) \div 2) + 1, hi, rotation, inverse, coord_limit)

\* self._pieces = new_pieces, the last statement of _make_rotation.
Rebind(c, done) ==
    Collect([_pieces |-> done.new_pieces, heap |-> done.heap, nextRef |-> c.nextRef])

\* Rubik._make_rotation
_make_rotation(c, rotation, inverse, coord_limit) ==
    Rebind(c, RotationLoop([new_pieces |-> <<>>, heap |-> c.heap], c._pieces, 1, Len(c._pieces),
                           rotation, inverse, coord_limit))

-----------------------------------------------------------------------------
\* The eighteen move methods of Rubik; c is the cube's mutable state
\* [_pieces, heap, nextRef], coord_limit its _coord_limit.

R(c, coord_limit) == _make_rotation(c, <<1, 0, 0>>, FALSE, coord_limit)

Ri(c, coord_limit) == _make_rotation(c, <<1, 0, 0>>, TRUE, coord_limit)

\* R2 that turns once.
R2_once(c, coord_limit) == R(c, coord_limit)

R2(c, coord_limit) == R(R(c, coord_limit), coord_limit)

\* L with the rotation vector of D.
L_as_D(c, coord_limit) == _make_rotation(c, <<0, -1, 0>>, FALSE, coord_limit)

L(c, coord_limit) == _make_rotation(c, <<-1, 0, 0>>, FALSE, coord_limit)

Li(c, coord_limit) == _make_rotation(c, <<-1, 0, 0>>, TRUE, coord_limit)

L2(c, coord_limit) == L(L(c, coord_limit), coord_limit)

F(c, coord_limit) == _make_rotation(c, <<0, 0, 1>>, FALSE, coord_limit)

Fi(c, coord_limit) == _make_rotation(c, <<0, 0, 1>>, TRUE, coord_limit)

F2(c, coord_limit) == F(F(c, coord_limit), coord_limit)

B(c, coord_limit) == _make_rotation(c, <<0, 0, -1>>, FALSE, coord_limit)

Bi(c, coord_limit) == _make_rotation(c, <<0, 0, -1>>, TRUE, coord_limit)

B2(c, coord_limit) == B(B(c, coord_limit), coord_limit)

U(c, coord_limit) == _make_rotation(c, <<0, 1, 0>>, FALSE, coord_limit)

\* Ui without the inverse flag.
Ui_as_U(c, coord_limit) == _make_rotation(c, <<0, 1, 0>>, FALSE, coord_limit)

Ui(c, coord_limit) == _make_rotation(c, <<0, 1, 0>>, TRUE, coord_limit)

U2(c, coord_limit) == U(U(c, coord_limit), coord_limit)

D(c, coord_limit) == _make_rotation(c, <<0, -1, 0>>, FALSE, coord_limit)

Di(c, coord_limit) == _make_rotation(c, <<0, -1, 0>>, TRUE, coord_limit)

D2(c, coord_limit) == D(D(c, coord_limit), coord_limit)

-----------------------------------------------------------------------------
\* The names of the eighteen move methods.
MoveNames ==
    {"R", "Ri", "R2", "L", "Li", "L2", "F", "Fi", "F2",
     "B", "Bi", "B2", "U", "Ui", "U2", "D", "Di", "D2"}

\* Attributes of a Rubik object that are not callable: the instance
\* attributes and the three properties.
ValueAttributes == {"_size", "_coord_limit", "_pieces", "coord_limit", "size", "pieces"}

\* Methods of Rubik that take an argument besides self.
ArgumentMethods == {"__init__", "__getitem__", "_get_init_piece_color", "_make_rotation"}

\* The text of a string: its items run together.
RECURSIVE Str(_)
Str(s) == IF s = <<>> THEN "" ELSE Head(s) \o Str(Tail(s))

\* The outcome of a call: the cube's state after it, the value returned
\* and the exception raised ("None" when it returns).
Outcome(c, ret, exc) == [cube |-> c, ret |-> ret, exc |-> exc]

\* getattr(self._cube, move)(): look the attribute up, then call it with no
\* argument. A missing attribute raises AttributeError; a value that is not
\* callable, or a method that wants an argument, raises TypeError before
\* any code of the method runs.
getattr_call(c, name, coord_limit) ==
    CASE name = "R"  -> Outcome(R(c, coord_limit), "None", "None")
      [] name = "Ri" -> Outcome(Ri(c, coord_limit), "None", "None")
      [] name = "R2" -> Outcome(R2(c, coord_limit), "None", "None")
      [] name = "L"  -> Outcome(L(c, coord_limit), "None", "None")
      [] name = "Li" -> Outcome(Li(c, coord_limit), "None", "None")
      [] name = "L2" -> Outcome(L2(c, coord_limit), "None", "None")
      [] name = "F"  -> Outcome(F(c, coord_limit), "None", "None")
      [] name = "Fi" -> Outcome(Fi(c, coord_limit), "None", "None")
      [] name = "F2" -> Outcome(F2(c, coord_limit), "None", "None")
      [] name = "B"  -> Outcome(B(c, coord_limit), "None", "None")
      [] name = "Bi" -> Outcome(Bi(c, coord_limit), "None", "None")
      [] name = "B2" -> Outcome(B2(c, coord_limit), "None", "None")
      [] name = "U"  -> Outcome(U(c, coord_limit), "None", "None")
      [] name = "Ui" -> Outcome(Ui(c, coord_limit), "None", "None")
      [] name = "U2" -> Outcome(U2(c, coord_limit), "None", "None")
      [] name = "D"  -> Outcome(D(c, coord_limit), "None", "None")
      [] name = "Di" -> Outcome(Di(c, coord_limit), "None", "None")
      [] name = "D2" -> Outcome(D2(c, coord_limit), "None", "None")
      [] name = "_generate_init_pieces" ->
             Outcome(_generate_init_pieces(c, coord_limit), "None", "None")
      [] name \in ValueAttributes \cup ArgumentMethods -> Outcome(c, "None", "TypeError")
      [] OTHER -> Outcome(c, "None", "AttributeError")

\* Whitespace characters, on which str.split() with no argument splits.
Whitespace == {" ", "\t", "\n"}

\* str.split() reading one item ch: st.cur is the run being read, st.acc
\* the tokens read so far.
SplitIteration(st, ch) ==
    IF ch \in Whitespace
    THEN [cur |-> "", acc |-> IF st.cur = "" THEN st.acc ELSE Append(st.acc, st.cur)]
    ELSE [cur |-> st.cur \o ch, acc |-> st.acc]

\* The items lo..hi of s read in order from st.
RECURSIVE SplitLoop(_, _, _, _)
SplitLoop(st, s, lo, hi) ==
    IF lo > hi THEN st
    ELSE IF lo = hi THEN SplitIteration(st, s[lo])
    ELSE CASE Evaluated(st) ->
              SplitLoop(SplitLoop(st, s, lo, (lo + hi) \div 2), s, ((lo + hi) \div 2) + 1, hi)

\* The run open at the end of the string is a token when it is not empty.
SplitEnd(st) == IF st.cur = "" THEN st.acc ELSE Append(st.acc, st.cur)

\* str.split(): the maximal runs of non-whitespace items, in order.
Split(s) == SplitEnd(SplitLoop([cur |-> "", acc |-> <<>>], s, 1, Len(s)))

\* The loop of Controller.apply_notation over the tokens lo..hi, in order,
\* from outcome o: an exception raised by a token ends the loop and leaves
\* the call, so nothing runs after it.
RECURSIVE NotationLoop(_, _, _, _, _)
NotationLoop(o, tokens, lo, hi, coord_limit) ==
    IF o.exc # "None" \/ lo > hi THEN o
    ELSE IF lo = hi THEN getattr_call(o.cube, tokens[lo], coord_limit)
    ELSE NotationLoop(NotationLoop(o, tokens, lo, (lo + hi) \div 2, coord_limit),
                      tokens, ((lo + hi) \div 2) + 1, hi, coord_limit)

\* The loop over all the tokens, from cube state c.
NotationRun(c, tokens, coord_limit) ==
    NotationLoop(Outcome(c, "None", "None"), tokens, 1, Len(tokens), coord_limit)

\* Controller.apply_notation
apply_notation(c, notation, coord_limit) == NotationRun(c, Split(notation), coord_limit)

\* chess_pattern whose notation lacks the last move.
chess_pattern_short(c, coord_limit) ==
    apply_notation(c, <<"R2", " ", "L2", " ", "B2", " ", "F2", " ", "U2">>, coord_limit)

\* Controller.chess_pattern
chess_pattern(c, coord_limit) ==
    apply_notation(c, <<"R2", " ", "L2", " ", "B2", " ", "F2", " ", "U2", " ", "D2">>, coord_limit)

\* try: ... return True / except AttributeError: return False, around a
\* call with outcome o.
TryExcept(o) ==
    IF o.exc = "AttributeError" THEN Outcome(o.cube, "False", "None")
    ELSE IF o.exc = "None" THEN Outcome(o.cube, "True", "None")
    ELSE o

\* make_move_callback that hands the string to the notation loop.
make_move_callback_split(c, move, coord_limit) ==
    TryExcept(apply_notation(c, move, coord_limit))

\* Controller.make_move_callback: AttributeError is caught and turned into
\* the value False; any other exception leaves the call.
make_move_callback(c, move, coord_limit) ==
    TryExcept(getattr_call(c, Str(move), coord_limit))

-----------------------------------------------------------------------------
\* Inputs of the controller calls.

Faces == {"R", "L", "F", "B", "U", "D"}

\* The quarter turns and their inverses.
Singles == Faces \cup {X \o "i" : X \in Faces}

\* The tokens written one after another with one blank between them.
RECURSIVE Join(_)
Join(tokens) ==
    IF Len(tokens) <= 1 THEN tokens
    ELSE <<Head(tokens), " ">> \o Join(Tail(tokens))

RECURSIVE Repeat(_, _)
Repeat(tokens, n) == IF n = 0 THEN <<>> ELSE tokens \o Repeat(tokens, n - 1)

Commutator == <<"R", "U", "Ri", "Ui">>

\* Strings given to make_move_callback: every move name, names that are no
\* attribute of the cube, and names of other attributes of the cube.
MoveInputs ==
    {<<m>> : m \in MoveNames}
    \cup {<<"Q">>, <<>>, <<"r">>, <<"R", " ", "Q">>, <<"R", "3">>}
    \cup {<<"size">>, <<"pieces">>, <<"_make_rotation">>, <<"_generate_init_pieces">>}

\* Strings given to apply_notation.
NotationInputs ==
    {Join(<<m, m, m, m>>) : m \in Singles}
    \cup {Join(<<X, X \o "i">>) : X \in Faces}
    \cup {Join(<<X \o "i", X>>) : X \in Faces}
    \cup {Join(<<m, m>>) : m \in MoveNames}
    \cup {Join(Repeat(Commutator, 3)), Join(Repeat(Commutator, 6))}
    \cup {<<>>, <<" ", "R", " ", "\t", "U", "i", "\n">>, <<"Q">>,
          <<"R", " ", "Q", " ", "U">>, <<"F", "2", " ", "D", " ", "size", " ", "L">>,
          <<"U", " ", "_generate_init_pieces", " ", "F">>,
          <<"B", " ", "L", "i", " ", "r", " ", "Q">>}

-----------------------------------------------------------------------------
\* The mutable state of the cube object.
cube == [_pieces |-> _pieces, heap |-> heap, nextRef |-> nextRef]

\* Controller.__init__: self._cube = Rubik(size). No call has been made:
\* last names the construction and before is the cube as constructed.
Init ==
    /\ _size \in Sizes
    /\ _coord_limit = _size \div 2
    /\ _pieces = Rubik(_size)._pieces
    /\ heap = Rubik(_size).heap
    /\ nextRef = Rubik(_size).nextRef
    /\ last = [op |-> "__init__", arg |-> <<>>]
    /\ result = [ret |-> "None", exc |-> "None"]
    /\ before = Rubik(_size)
    /\ calls = 0

\* A call o of operation op with argument arg has ended: the cube is as the
\* call left it; last, result and before record the call.
Commit(o, op, arg) ==
    /\ _pieces' = o.cube._pieces
    /\ heap' = o.cube.heap
    /\ nextRef' = o.cube.nextRef
    /\ last' = [op |-> op, arg |-> arg]
    /\ result' = [ret |-> o.ret, exc |-> o.exc]
    /\ before' = cube
    /\ calls' = calls + 1
    /\ UNCHANGED <<_size, _coord_limit>>

MakeMoveCallback ==
    /\ calls < MaxCalls
    /\ \E move \in MoveInputs :
           Commit(make_move_callback(cube, move, _coord_limit), "make_move_callback", move)

ApplyNotation ==
    /\ calls < MaxCalls
    /\ \E notation \in NotationInputs :
           Commit(apply_notation(cube, notation, _coord_limit), "apply_notation", notation)

ChessPattern ==
    /\ calls < MaxCalls
    /\ Commit(chess_pattern(cube, _coord_limit), "chess_pattern", <<>>)

Next == MakeMoveCallback \/ ApplyNotation \/ ChessPattern

Spec == Init /\ [][Next]_vars

-----------------------------------------------------------------------------
\* Vocabulary of the properties.

\* The coordinate cube [-coord_limit, coord_limit]^3.
FullCube(coord_limit) ==
    (-coord_limit..coord_limit) \X (-coord_limit..coord_limit) \X (-coord_limit..coord_limit)

\* The position under which the Piece object r is stored in cube state c.
KeyOf(c, r) == c._pieces[CHOOSE i \in 1..Len(c._pieces) : c._pieces[i].ref = r].key

\* The number of zero coordinates of a position of the size-3 cube:
\* 0 for a corner, 1 for an edge, 2 for a face center, 3 for the cube center.
Zeros(position) == Cardinality({j \in 1..3 : position[j] = 0})

\* The outcome of the moves named by tokens, called one after another from
\* left to right starting from outcome o, up to a token that raises.
RECURSIVE MovesOutcome(_, _, _)
MovesOutcome(o, tokens, coord_limit) ==
    IF o.exc # "None" \/ tokens = <<>> THEN o
    ELSE IF Len(tokens) = 1 THEN getattr_call(o.cube, tokens[1], coord_limit)
    ELSE MovesOutcome(MovesOutcome(o, SubSeq(tokens, 1, Len(tokens) \div 2), coord_limit),
                      SubSeq(tokens, (Len(tokens) \div 2) + 1, Len(tokens)), coord_limit)

\* The cube after the moves named by tokens, applied to c from left to right
\* (up to a token that raises).
MovesApplied(c, tokens, coord_limit) ==
    MovesOutcome(Outcome(c, "None", "None"), tokens, coord_limit).cube

\* The last call was make_move_callback with one of the eighteen move names.
LastIsMove == last.op = "make_move_callback" /\ Str(last.arg) \in MoveNames

\* The last call was apply_notation of a string that splits into tokens.
LastIsNotation(tokens) == last.op = "apply_notation" /\ Split(last.arg) = tokens

-----------------------------------------------------------------------------
\* C1. Bijection invariant: after construction and after any calls, the keys
\* of the position -> piece mapping are exactly [-limit, limit]^3, the
\* mapping has size^3 items, and no two keys hold the same piece.
BijectionInvariant ==
    /\ DictKeys(_pieces) = FullCube(_coord_limit)
    /\ Len(_pieces) = _size * _size * _size
    /\ Cardinality({_pieces[i].ref : i \in 1..Len(_pieces)}) = Len(_pieces)

\* A size-3 cube after two moves that each changed the cube.
BijectionWitness ==
    /\ _size = 3
    /\ calls = 2
    /\ LastIsMove
    /\ cube # before
    /\ before # Rubik(3)
    /\ BijectionInvariant

\* C2. Shell-color invariant: for every piece and every axis, the piece's
\* label on the axis is present iff the coordinate on that axis of the
\* position it is stored under is +limit or -limit.
ShellColorInvariant ==
    \A i \in 1..Len(_pieces) : \A a \in {"x", "y", "z"} :
        (heap[_pieces[i].ref][a] # "None")
            <=> (Abs(Position_getattr(_pieces[i].key, a)) = _coord_limit)

\* A size-3 cube after a move that took an edge piece, which has an absent
\* label, to another position.
ShellColorWitness ==
    /\ _size = 3
    /\ LastIsMove
    /\ \E i \in 1..Len(_pieces) :
           /\ Zeros(_pieces[i].key) = 1
           /\ KeyOf(before, _pieces[i].ref) # _pieces[i].key
    /\ ShellColorInvariant

\* C3. Unknown move rejection: make_move_callback with any string that is
\* not one of the eighteen move names signals failure (it does not return
\* True) and leaves the cube as it was.
UnknownMoveRejection ==
    (last.op = "make_move_callback" /\ Str(last.arg) \notin MoveNames)
        => (result.ret # "True" /\ cube = before)

\* C4. State unchanged on signalled failure: when make_move_callback
\* returns False, the cube is as it was before the call.
StateUnchangedOnFailure ==
    (last.op = "make_move_callback" /\ result.ret = "False") => cube = before

\* make_move_callback returned False on a cube that an earlier call had
\* taken out of the solved state.
StateUnchangedOnFailureWitness ==
    /\ last.op = "make_move_callback"
    /\ result.ret = "False"
    /\ _size = 3
    /\ \E i \in 1..Len(_pieces) : _pieces[i].key # Rubik(3)._pieces[i].key
    /\ cube = before

\* C5. Quarter-turn order 4: a notation of four times the same quarter or
\* inverse turn leaves every piece at the position and with the labels it
\* had before the call.
QuarterTurnOrder4 ==
    \A m \in Singles :
        LastIsNotation(<<m, m, m, m>>) => (result.exc = "None" /\ cube = before)

\* Four equal turns were applied to a size-3 cube that an earlier call had
\* taken out of the solved state.
QuarterTurnOrder4Witness ==
    /\ _size = 3
    /\ \E m \in Singles : LastIsNotation(<<m, m, m, m>>)
    /\ \E i \in 1..Len(_pieces) : _pieces[i].key # Rubik(3)._pieces[i].key
    /\ cube = before

\* C6. Inverse cancellation: for each face X, the notation "X Xi" and the
\* notation "Xi X" leave the cube as it was before the call.
InverseCancellation ==
    \A X \in Faces :
        (LastIsNotation(<<X, X \o "i">>) \/ LastIsNotation(<<X \o "i", X>>))
            => (result.exc = "None" /\ cube = before)

\* A turn and its inverse were applied to a size-3 cube out of the solved
\* state, and the turn alone would have changed that cube.
InverseCancellationWitness ==
    /\ _size = 3
    /\ \E X \in Faces :
           /\ LastIsNotation(<<X, X \o "i">>) \/ LastIsNotation(<<X \o "i", X>>)
           /\ getattr_call(before, X, _coord_limit).cube # before
    /\ before # Rubik(3)
    /\ cube = before

\* C7. Double-turn composition: for each face X, the move X2 leaves the
\* cube in the state that the notation "X X" and the notation "Xi Xi" give
\* from the same state, and the notation "X2 X2" leaves the cube as it was.
DoubleTurnComposition ==
    \A X \in Faces :
        /\ (last.op = "make_move_callback" /\ Str(last.arg) = X \o "2") =>
               /\ result.ret = "True"
               /\ cube = apply_notation(before, <<X, " ", X>>, _coord_limit).cube
               /\ cube = apply_notation(before, <<X \o "i", " ", X \o "i">>, _coord_limit).cube
        /\ LastIsNotation(<<X \o "2", X \o "2">>) => (result.exc = "None" /\ cube = before)

\* A double turn changed a size-3 cube that was out of the solved state.
DoubleTurnCompositionWitness ==
    /\ _size = 3
    /\ \E X \in Faces : last.op = "make_move_callback" /\ Str(last.arg) = X \o "2"
    /\ before # Rubik(3)
    /\ cube # before
    /\ DoubleTurnComposition

\* chess_pattern was called on the size-3 cube as constructed.
ChessFromSolved == last.op = "chess_pattern" /\ _size = 3 /\ before = Rubik(3)

\* C8 as stated. After chess_pattern on the solved size-3 cube the pieces
\* that keep their position are exactly the six face centers and the cube
\* center, and every corner piece is at the diagonally opposite corner of
\* a face it was on: one coordinate kept, the two others negated.
ChessPatternMovesCorners ==
    ChessFromSolved =>
        \A p \in FullCube(1) :
            LET q == KeyOf(cube, DictGet(before._pieces, p))
            IN /\ (q = p) <=> (Zeros(p) >= 2)
               /\ Zeros(p) = 0 =>
                      /\ q # p
                      /\ Cardinality({j \in 1..3 : q[j] = p[j]}) = 1
                      /\ Cardinality({j \in 1..3 : q[j] = -p[j]}) = 2

\* C8, amended. chess_pattern applies R2 L2 B2 F2 U2 D2 in that order; on
\* the solved size-3 cube the face centers, the cube center and the eight
\* corners keep their position, each of the twelve edge pieces ends at the
\* position with every coordinate negated, and every piece has the labels
\* it had.
ChessPatternMovesEdges ==
    ChessFromSolved =>
        /\ result.exc = "None"
        /\ cube = MovesApplied(before, <<"R2", "L2", "B2", "F2", "U2", "D2">>, 1)
        /\ \A p \in FullCube(1) :
               LET r == DictGet(before._pieces, p)
               IN /\ heap[r] = before.heap[r]
                  /\ KeyOf(cube, r) = IF Zeros(p) = 1 THEN <<-p[1], -p[2], -p[3]>> ELSE p

\* chess_pattern has run on the solved size-3 cube and moved a piece.
ChessPatternWitness == ChessFromSolved /\ cube # before

\* C9 as stated. From the solved size-3 cube, R U Ri Ui three times gives
\* the solved cube again.
CommutatorThreeTimesSolved ==
    (LastIsNotation(Repeat(Commutator, 3)) /\ _size = 3 /\ before = Rubik(3))
        => cube = before

\* The positions of the four corners that R U Ri Ui three times disturbs.
CommutatorCorners == {<<1, 1, 1>>, <<1, 1, -1>>, <<1, -1, 1>>, <<-1, 1, -1>>}

\* C9, amended. From the solved size-3 cube, R U Ri Ui six times gives the
\* solved cube again; after three times the positions whose piece or whose
\* piece's labels differ from the solved cube are exactly four corners.
CommutatorSixTimesSolved ==
    /\ (LastIsNotation(Repeat(Commutator, 6)) /\ _size = 3 /\ before = Rubik(3))
           => (result.exc = "None" /\ cube = before)
    /\ (LastIsNotation(Repeat(Commutator, 3)) /\ _size = 3 /\ before = Rubik(3))
           => /\ result.exc = "None"
              /\ {p \in FullCube(1) :
                     \/ DictGet(_pieces, p) # DictGet(before._pieces, p)
                     \/ heap[DictGet(_pieces, p)] # before.heap[DictGet(_pieces, p)]}
                 = CommutatorCorners

\* R U Ri Ui six times has run on the solved size-3 cube.
CommutatorWitness ==
    /\ LastIsNotation(Repeat(Commutator, 6))
    /\ _size = 3
    /\ before = Rubik(3)
    /\ cube = before

\* C10. apply_notation sequencing: the string is split on whitespace; when
\* every token is a move name the call returns and the cube is the one the
\* moves give in order; otherwise the call fails and the cube is the one
\* given by the moves before the first token that is not a move name.
ApplyNotationSequencing ==
    last.op = "apply_notation" =>
        LET tokens == Split(last.arg)
            bad == {i \in 1..Len(tokens) : tokens[i] \notin MoveNames}
        IN IF bad = {}
           THEN result.exc = "None" /\ cube = MovesApplied(before, tokens, _coord_limit)
           ELSE LET k == CHOOSE i \in bad : \A j \in bad : i <= j
                IN /\ result.exc # "None"
                   /\ cube = MovesApplied(before, SubSeq(tokens, 1, k - 1), _coord_limit)

-----------------------------------------------------------------------------
\* Construction with any size: Rubik.__init__ takes every integer.

\* Sizes given to the constructor, among them even and non-positive ones.
AnySizes == {-3, -2, -1, 0, 1, 2}

InitAnySize ==
    /\ _size \in AnySizes
    /\ _coord_limit = _size \div 2
    /\ _pieces = Rubik(_size)._pieces
    /\ heap = Rubik(_size).heap
    /\ nextRef = Rubik(_size).nextRef
    /\ last = [op |-> "__init__", arg |-> <<>>]
    /\ result = [ret |-> "None", exc |-> "None"]
    /\ before = Rubik(_size)
    /\ calls = 0

SpecAnySize == InitAnySize /\ [][Next]_vars

\* C11. Invalid construction parameters are fatal: a constructor call that
\* returns a cube was given a positive odd size, and the cube's mapping
\* has size^3 items whose keys are exactly [-limit, limit]^3.
InvalidSizeRejected ==
    (last.op = "__init__" /\ result.exc = "None") =>
        /\ _size > 0
        /\ _size % 2 = 1
        /\ Len(_pieces) = _size * _size * _size
        /\ DictKeys(_pieces) = FullCube(_coord_limit)

-----------------------------------------------------------------------------
\* The labels of the piece stored under a position.
LabelsAt(position) == heap[DictGet(_pieces, position)]

\* The labels shown on the face of axis a and sign sgn: the a-labels of the
\* pieces whose a-coordinate is sgn * limit.
FaceColors(a, sgn) ==
    {LabelsAt(p)[a] : p \in {q \in FullCube(_coord_limit) :
                                Position_getattr(q, a) = sgn * _coord_limit}}

\* C12. Solved initial coloring: right after construction the piece at
\* (x, y, z) has x-label ORANGE if x = +limit, RED if x = -limit, else
\* absent; y-label YELLOW / WHITE / absent; z-label GREEN / BLUE / absent;
\* every face shows one color, and for size >= 3 the six faces show six
\* different colors.
SolvedInitialColoring ==
    last.op = "__init__" =>
        /\ \A p \in FullCube(_coord_limit) :
               /\ LabelsAt(p).x = (IF p[1] = _coord_limit THEN "ORANGE"
                                   ELSE IF p[1] = -_coord_limit THEN "RED" ELSE "None")
               /\ LabelsAt(p).y = (IF p[2] = _coord_limit THEN "YELLOW"
                                   ELSE IF p[2] = -_coord_limit THEN "WHITE" ELSE "None")
               /\ LabelsAt(p).z = (IF p[3] = _coord_limit THEN "GREEN"
                                   ELSE IF p[3] = -_coord_limit THEN "BLUE" ELSE "None")
        /\ \A a \in {"x", "y", "z"} : \A sgn \in {1, -1} :
               /\ Cardinality(FaceColors(a, sgn)) = 1
               /\ "None" \notin FaceColors(a, sgn)
        /\ _size >= 3 =>
               Cardinality(UNION {FaceColors(a, sgn) : a \in {"x", "y", "z"}, sgn \in {1, -1}}) = 6

\* A size-3 cube as constructed, whose right face shows ORANGE on nine
\* pieces and whose center piece has no label.
SolvedInitialColoringWitness ==
    /\ last.op = "__init__"
    /\ _size = 3
    /\ FaceColors("x", 1) = {"ORANGE"}
    /\ Cardinality({p \in FullCube(1) : LabelsAt(p).x = "ORANGE"}) = 9
    /\ LabelsAt(<<0, 0, 0>>) = [x |-> "None", y |-> "None", z |-> "None"]

-----------------------------------------------------------------------------
\* The Piece objects stored in the mapping of cube state c.
PieceObjects(c) == {c._pieces[i].ref : i \in 1..Len(c._pieces)}

\* The multiset of the three labels of a piece: label -> number of axes.
LabelBag(p) ==
    [l \in {p.x, p.y, p.z} |-> Cardinality({a \in {"x", "y", "z"} : p[a] = l})]

\* The last call applied named moves only: a move through
\* make_move_callback, a notation of move names, or chess_pattern.
LastAppliedMovesOnly ==
    \/ LastIsMove
    \/ last.op = "chess_pattern"
    \/ /\ last.op = "apply_notation"
       /\ \A i \in 1..Len(Split(last.arg)) : Split(last.arg)[i] \in MoveNames

\* C13. Piece conservation: a call that applies named moves leaves the set
\* of Piece objects as it was, one object per item, each with the multiset
\* of labels it had; as long as no piece has been created since the
\* construction, the objects are those of the construction with the
\* multisets of labels they were created with.
PieceConservation ==
    /\ LastAppliedMovesOnly =>
           /\ PieceObjects(cube) = PieceObjects(before)
           /\ Cardinality(PieceObjects(cube)) = Len(_pieces)
           /\ nextRef = before.nextRef
           /\ \A r \in PieceObjects(cube) : LabelBag(heap[r]) = LabelBag(before.heap[r])
    /\ LET constructed == Rubik(_size)
       IN nextRef = constructed.nextRef =>
              /\ PieceObjects(cube) = PieceObjects(constructed)
              /\ DOMAIN heap = PieceObjects(constructed)
              /\ \A r \in PieceObjects(cube) : LabelBag(heap[r]) = LabelBag(constructed.heap[r])

\* Two moves on a size-3 cube, after which a piece of the construction is
\* stored under another position with its labels on other axes.
PieceConservationWitness ==
    /\ _size = 3
    /\ calls = 2
    /\ LastIsMove
    /\ before # Rubik(3)
    /\ nextRef = Rubik(3).nextRef
    /\ \E r \in PieceObjects(cube) :
           /\ heap[r] # Rubik(3).heap[r]
           /\ KeyOf(cube, r) # KeyOf(Rubik(3), r)
           /\ LabelBag(heap[r]) = LabelBag(Rubik(3).heap[r])

-----------------------------------------------------------------------------
\* The face a move name belongs to.
FaceOf(m) == CHOOSE X \in Faces : m \in {X, X \o "i", X \o "2"}

\* The rotation vector the methods of a face pass to _make_rotation.
RotationVector(X) ==
    CASE X = "R" -> <<1, 0, 0>>
      [] X = "L" -> <<-1, 0, 0>>
      [] X = "F" -> <<0, 0, 1>>
      [] X = "B" -> <<0, 0, -1>>
      [] X = "U" -> <<0, 1, 0>>
      [] X = "D" -> <<0, -1, 0>>

\* The last call was make_move_callback with the move name m.
LastMoveIs(m) == last.op = "make_move_callback" /\ Str(last.arg) = m

\* The Piece objects that were in the outer slice of the face of move m
\* before the last call: the coordinate on the axis of the face's vector
\* equals the vector's sign times the limit.
SliceBefore(m) ==
    LET v == RotationVector(FaceOf(m))
        a == CHOOSE j \in 1..3 : v[j] # 0
    IN {r \in PieceObjects(before) : KeyOf(before, r)[a] = (v[1] + v[2] + v[3]) * _coord_limit}

\* C14. Slice selection and frame: after a quarter or inverse turn, every
\* piece outside the outer slice of the face has the position and the
\* labels it had; every piece of the slice has the coordinate on the turn
\* axis it had, and it is changed unless it lies on the axis with equal
\* labels on the two other axes. X and Xi act on the same slice.
SliceSelectionAndFrame ==
    \A m \in Singles :
        LastMoveIs(m) =>
            LET v == RotationVector(FaceOf(m))
                a == CHOOSE j \in 1..3 : v[j] # 0
                others == (1..3) \ {a}
            IN /\ \A r \in PieceObjects(before) \ SliceBefore(m) :
                      /\ r \in PieceObjects(cube)
                      /\ KeyOf(cube, r) = KeyOf(before, r)
                      /\ heap[r] = before.heap[r]
               /\ \A r \in SliceBefore(m) :
                      /\ r \in PieceObjects(cube)
                      /\ KeyOf(cube, r)[a] = KeyOf(before, r)[a]
                      /\ (KeyOf(cube, r) = KeyOf(before, r) /\ heap[r] = before.heap[r])
                             <=> /\ \A j \in others : KeyOf(before, r)[j] = 0
                                 /\ \A j, k \in others :
                                        before.heap[r][<<"x", "y", "z">>[j]]
                                            = before.heap[r][<<"x", "y", "z">>[k]]

\* A quarter or inverse turn of a size-3 cube out of the solved state, with
\* nine pieces in the slice and eighteen outside.
SliceSelectionAndFrameWitness ==
    /\ _size = 3
    /\ before # Rubik(3)
    /\ \E m \in Singles :
           /\ LastMoveIs(m)
           /\ Cardinality(SliceBefore(m)) = 9
           /\ Cardinality({r \in SliceBefore(m) : KeyOf(cube, r) # KeyOf(before, r)}) = 8
           /\ Cardinality({r \in PieceObjects(before) \ SliceBefore(m) :
                               KeyOf(cube, r) = KeyOf(before, r)}) = 18

\* The row of the position table for direction d, applied to position p.
TableRow(d, p) ==
    CASE d = <<1, 0, 0>>  -> <<p[1], p[3], -p[2]>>
      [] d = <<-1, 0, 0>> -> <<p[1], -p[3], p[2]>>
      [] d = <<0, 1, 0>>  -> <<-p[3], p[2], p[1]>>
      [] d = <<0, -1, 0>> -> <<p[3], p[2], -p[1]>>
      [] d = <<0, 0, 1>>  -> <<p[2], -p[1], p[3]>>
      [] d = <<0, 0, -1>> -> <<-p[2], p[1], p[3]>>

\* The quarter turn of p about the unit vector n that is clockwise for a
\* viewer looking along -n at the face of outward normal n, in the
\* right-handed frame x right, y up, z toward the viewer: p x n + (n.p) n.
ClockwiseTurn(n, p) ==
    LET dot == n[1] * p[1] + n[2] * p[2] + n[3] * p[3]
    IN <<p[2] * n[3] - p[3] * n[2] + dot * n[1],
         p[3] * n[1] - p[1] * n[3] + dot * n[2],
         p[1] * n[2] - p[2] * n[1] + dot * n[3]>>

\* C15. Position permutation rule: after a quarter or inverse turn, every
\* piece of the slice is stored under the position the table row of d
\* gives, d being the face's vector, negated for an inverse turn; that row
\* is the clockwise quarter turn about d, so X turns its face clockwise as
\* seen from outside and Xi uses the map of the opposite face's turn.
PositionPermutationRule ==
    \A m \in Singles :
        LastMoveIs(m) =>
            LET v == RotationVector(FaceOf(m))
                d == IF m = FaceOf(m) THEN v ELSE <<-v[1], -v[2], -v[3]>>
            IN \A r \in SliceBefore(m) :
                   /\ KeyOf(cube, r) = TableRow(d, KeyOf(before, r))
                   /\ KeyOf(cube, r) = ClockwiseTurn(d, KeyOf(before, r))

\* An inverse turn of a size-3 cube has taken a corner piece of its slice
\* to the position given by the row of the opposite face's vector.
PositionPermutationRuleWitness ==
    /\ _size = 3
    /\ \E X \in Faces :
           /\ LastMoveIs(X \o "i")
           /\ \E r \in SliceBefore(X \o "i") :
                  /\ Zeros(KeyOf(before, r)) = 0
                  /\ KeyOf(cube, r) # KeyOf(before, r)
                  /\ KeyOf(cube, r) =
                         TableRow(RotationVector(CHOOSE Y \in Faces :
                                      RotationVector(Y) = <<-RotationVector(X)[1],
                                                            -RotationVector(X)[2],
                                                            -RotationVector(X)[3]>>),
                                  KeyOf(before, r))

-----------------------------------------------------------------------------
\* A quarter or inverse turn executed one loop iteration at a time. While
\* _make_rotation runs, last is its frame: the move name, the index i of
\* the next item of self.pieces.items() and the local dict new_pieces;
\* before is the cube when the call began. The cube's own state (_pieces,
\* heap) is what a reader of the cube sees at that point.

\* The method of move m is called: _make_rotation starts with an empty
\* new_pieces.
RotationBegin ==
    /\ last.op # "_make_rotation"
    /\ calls < MaxCalls
    /\ \E m \in Singles :
           last' = [op |-> "_make_rotation", arg |-> <<m>>, i |-> 1, new_pieces |-> <<>>]
    /\ result' = [ret |-> "None", exc |-> "None"]
    /\ before' = cube
    /\ UNCHANGED <<_size, _coord_limit, _pieces, heap, nextRef, calls>>

\* One iteration of the loop: the item is stored into new_pieces, under
\* its new position when selected, and a selected piece is rotated in place.
RotationStep ==
    /\ last.op = "_make_rotation"
    /\ last.i <= Len(_pieces)
    /\ LET m == Str(last.arg)
           rotation == RotationVector(FaceOf(m))
           inverse == m # FaceOf(m)
           position == _pieces[last.i].key
           piece == _pieces[last.i].ref
       IN IF Selected(position, rotation, _coord_limit)
          THEN /\ last' = [last EXCEPT
                              !.i = @ + 1,
                              !.new_pieces = DictSet(@, NewPosition(position, Direction(rotation, inverse)), piece)]
               /\ heap' = [heap EXCEPT ![piece] = Piece_rotate(heap[piece], AxisOf(rotation))]
          ELSE /\ last' = [last EXCEPT !.i = @ + 1,
                                        !.new_pieces = DictSet(@, position, piece)]
               /\ heap' = heap
    /\ UNCHANGED <<_size, _coord_limit, _pieces, nextRef, result, before, calls>>

\* The loop has ended: self._pieces = new_pieces, and the call returns
\* through make_move_callback with True.
RotationEnd ==
    /\ last.op = "_make_rotation"
    /\ last.i > Len(_pieces)
    /\ _pieces' = last.new_pieces
    /\ heap' = Collect([_pieces |-> last.new_pieces, heap |-> heap, nextRef |-> nextRef]).heap
    /\ last' = [op |-> "make_move_callback", arg |-> last.arg]
    /\ result' = [ret |-> "True", exc |-> "None"]
    /\ calls' = calls + 1
    /\ UNCHANGED <<_size, _coord_limit, nextRef, before>>

NextSteps == RotationBegin \/ RotationStep \/ RotationEnd

SpecSteps == Init /\ [][NextSteps]_vars

\* What a reader of cube state c sees: the mapping and the pieces' labels.
Observed(c) == [_pieces |-> c._pieces, heap |-> c.heap]

\* C16. Atomic rotation: at every point of a running rotation a reader of
\* the cube sees either the whole state before the move or the whole
\* state after it.
AtomicRotation ==
    last.op = "_make_rotation" =>
        LET m == Str(last.arg)
            post == _make_rotation(before, RotationVector(FaceOf(m)), m # FaceOf(m), _coord_limit)
        IN Observed(cube) \in {Observed(before), Observed(post)}

\* The labels the reorientation about axis a gives a piece with labels p:
\* the label on a stays, the two others are exchanged.
Reoriented(a, p) ==
    CASE a = "x" -> [x |-> p.x, y |-> p.z, z |-> p.y]
      [] a = "y" -> [x |-> p.z, y |-> p.y, z |-> p.x]
      [] a = "z" -> [x |-> p.y, y |-> p.x, z |-> p.z]

\* The axis name of the face of move m.
TurnAxis(m) ==
    <<"x", "y", "z">>[CHOOSE j \in 1..3 : RotationVector(FaceOf(m))[j] # 0]

\* C17. Piece reorientation rule: while a turn about axis a runs, the keys
\* of the mapping are untouched, every slice piece the loop has passed has
\* been reoriented once by the rule of a (whatever the face's sign and the
\* inverse flag) and no other piece has changed; when the turn has ended
\* every slice piece has been reoriented once; reorienting twice about
\* one axis restores a piece.
PieceReorientationRule ==
    /\ last.op = "_make_rotation" =>
           /\ _pieces = before._pieces
           /\ \A j \in 1..Len(_pieces) :
                  heap[_pieces[j].ref] =
                      IF j < last.i /\ _pieces[j].ref \in SliceBefore(Str(last.arg))
                      THEN Reoriented(TurnAxis(Str(last.arg)), before.heap[_pieces[j].ref])
                      ELSE before.heap[_pieces[j].ref]
    /\ \A m \in Singles :
           LastMoveIs(m) =>
               \A r \in PieceObjects(before) :
                   heap[r] = IF r \in SliceBefore(m)
                             THEN Reoriented(TurnAxis(m), before.heap[r])
                             ELSE before.heap[r]
    /\ \A r \in DOMAIN heap : \A a \in {"x", "y", "z"} :
           Piece_rotate(Piece_rotate(heap[r], a), a) = heap[r]

\* A turn of a size-3 cube is running: a slice piece already passed has
\* other labels than before, under the key it had, and a slice piece not
\* yet passed is still to be reoriented.
PieceReorientationRuleWitness ==
    /\ _size = 3
    /\ last.op = "_make_rotation"
    /\ _pieces = before._pieces
    /\ \E j, k \in 1..Len(_pieces) :
           /\ j < last.i
           /\ k >= last.i
           /\ {_pieces[j].ref, _pieces[k].ref} \subseteq SliceBefore(Str(last.arg))
           /\ heap[_pieces[j].ref] # before.heap[_pieces[j].ref]
           /\ heap[_pieces[k].ref] = before.heap[_pieces[k].ref]
           /\ Reoriented(TurnAxis(Str(last.arg)), heap[_pieces[k].ref]) # heap[_pieces[k].ref]

-----------------------------------------------------------------------------
\* Moves on opposite faces.

\* Whether two move names belong to opposite faces.
Opposite(m1, m2) == {FaceOf(m1), FaceOf(m2)} \in {{"R", "L"}, {"U", "D"}, {"F", "B"}}

\* Notations of two moves on opposite faces, the move on R, U or F first:
\* the other order of a pair is what the claim compares it with.
OppositeInputs ==
    UNION {{<<m1, " ", m2>> : m2 \in {m \in MoveNames : Opposite(m1, m)}} :
               m1 \in {m \in MoveNames : FaceOf(m) \in {"R", "U", "F"}}}

ApplyOppositeNotation ==
    /\ calls < MaxCalls
    /\ \E notation \in OppositeInputs :
           Commit(apply_notation(cube, notation, _coord_limit), "apply_notation", notation)

NextOpposite == MakeMoveCallback \/ ApplyOppositeNotation

SpecOpposite == Init /\ [][NextOpposite]_vars

\* C18. Opposite faces commute: after a notation "m1 m2" of two moves on
\* opposite faces the cube is the one that "m2 m1" gives from the same
\* state.
OppositeFacesCommute ==
    last.op = "apply_notation" =>
        LET tokens == Split(last.arg)
        IN \A m1, m2 \in MoveNames :
               (tokens = <<m1, m2>> /\ Opposite(m1, m2)) =>
                   /\ result.exc = "None"
                   /\ cube = apply_notation(before, <<m2, " ", m1>>, _coord_limit).cube

\* Two moves on opposite faces were applied to a size-3 cube out of the
\* solved state, and each of the two changed the cube.
OppositeFacesCommuteWitness ==
    /\ _size = 3
    /\ before # Rubik(3)
    /\ \E m1, m2 \in MoveNames :
           /\ Opposite(m1, m2)
           /\ LastIsNotation(<<m1, m2>>)
           /\ getattr_call(before, m1, 1).cube # before
           /\ getattr_call(before, m1, 1).cube # cube
           /\ getattr_call(before, m2, 1).cube # cube

-----------------------------------------------------------------------------
\* C19. Fixed centers: on a cube of size >= 3, as long as no piece has
\* been created since the construction, each of the six face-center
\* positions holds the piece of the construction with the labels it was
\* created with, and every position with no coordinate equal to +-limit
\* holds the piece of the construction.
FixedCenters ==
    LET constructed == Rubik(_size)
    IN (_size >= 3 /\ nextRef = constructed.nextRef) =>
           /\ \A p \in FullCube(_coord_limit) :
                  (\E j \in 1..3 : Abs(p[j]) = _coord_limit /\ \A k \in (1..3) \ {j} : p[k] = 0) =>
                      /\ DictGet(_pieces, p) = DictGet(constructed._pieces, p)
                      /\ LabelsAt(p) = constructed.heap[DictGet(constructed._pieces, p)]
                      /\ Cardinality({a \in {"x", "y", "z"} : LabelsAt(p)[a] # "None"}) = 1
           /\ \A p \in FullCube(_coord_limit) :
                  (\A j \in 1..3 : Abs(p[j]) # _coord_limit) =>
                      DictGet(_pieces, p) = DictGet(constructed._pieces, p)

\* Two moves have changed a size-3 cube, turning a face about its center,
\* and no piece was created.
FixedCentersWitness ==
    /\ _size = 3
    /\ calls = 2
    /\ LastIsMove
    /\ cube # before
    /\ before # Rubik(3)
    /\ nextRef = Rubik(3).nextRef
    /\ LabelsAt(RotationVector(FaceOf(Str(last.arg)))) \in
           {[x |-> "ORANGE", y |-> "None", z |-> "None"], [x |-> "RED", y |-> "None", z |-> "None"],
            [x |-> "None", y |-> "YELLOW", z |-> "None"], [x |-> "None", y |-> "WHITE", z |-> "None"],
            [x |-> "None", y |-> "None", z |-> "GREEN"], [x |-> "None", y |-> "None", z |-> "BLUE"]}

-----------------------------------------------------------------------------
\* The command-line session, Cli.start(make_move, exit), with
\* make_move = Controller.make_move_callback and exit = exit_callback.
\* last is the frame of start: pc is where the session stands ("refresh":
\* about to call refresh_cube; "prompt": in input() of input_move;
\* "notice": in input() of invalid_instruction; "exited": start has
\* returned through exit(); "raised": an exception has left start), event
\* the last thing that happened, arg the last text read by input_move,
\* shown what refresh_cube last drew, dispatched and notices the number of
\* make_move calls and of notices for the last text, exits the number of
\* calls of exit. calls counts the texts read.

\* Texts typed at the prompt: the inputs of make_move_callback and the
\* quit commands.
CliInputs == MoveInputs \cup {<<"q">>, <<"Q">>}

\* Controller.start on the cube as constructed.
InitCli ==
    /\ _size \in Sizes
    /\ _coord_limit = _size \div 2
    /\ _pieces = Rubik(_size)._pieces
    /\ heap = Rubik(_size).heap
    /\ nextRef = Rubik(_size).nextRef
    /\ last = [op |-> "Cli.start", pc |-> "refresh", event |-> "start", arg |-> <<>>,
               shown |-> <<>>, dispatched |-> 0, notices |-> 0, exits |-> 0]
    /\ result = [ret |-> "None", exc |-> "None"]
    /\ before = Rubik(_size)
    /\ calls = 0

\* refresh_cube(): the cube is drawn as it is, then input_move prompts.
CliRefresh ==
    /\ last.pc = "refresh"
    /\ last' = [last EXCEPT !.pc = "prompt", !.event = "refresh", !.shown = Observed(cube)]
    /\ UNCHANGED <<_size, _coord_limit, _pieces, heap, nextRef, result, before, calls>>

\* input() of input_move returns a text. "q" and "Q" give None, start raises
\* KeyboardInterrupt itself and its handler calls exit(). Any other text
\* goes to make_move, whose call ends with outcome o: True leads to the
\* next iteration, False to the notice of invalid_instruction, an exception
\* leaves start.
CliDispatch(o, text) ==
    /\ _pieces' = o.cube._pieces
    /\ heap' = o.cube.heap
    /\ nextRef' = o.cube.nextRef
    /\ result' = [ret |-> o.ret, exc |-> o.exc]
    /\ before' = cube
    /\ last' = [last EXCEPT
                   !.pc = IF o.exc # "None" THEN "raised"
                          ELSE IF o.ret = "False" THEN "notice"
                          ELSE "refresh",
                   !.event = "input", !.arg = text, !.dispatched = 1,
                   !.notices = IF o.exc = "None" /\ o.ret = "False" THEN 1 ELSE 0]

\* One text read at the prompt.
CliInput ==
    /\ last.pc = "prompt"
    /\ calls < MaxCalls
    /\ calls' = calls + 1
    /\ \E text \in CliInputs :
           IF Str(text) \in {"q", "Q"}
           THEN /\ last' = [last EXCEPT !.pc = "exited", !.event = "input", !.arg = text,
                                        !.dispatched = 0, !.notices = 0, !.exits = @ + 1]
                /\ UNCHANGED <<_pieces, heap, nextRef, result, before>>
           ELSE CliDispatch(make_move_callback(cube, text, _coord_limit), text)
    /\ UNCHANGED <<_size, _coord_limit>>

\* input() of invalid_instruction returns: the loop goes on.
CliNoticeEnter ==
    /\ last.pc = "notice"
    /\ last' = [last EXCEPT !.pc = "refresh", !.event = "enter"]
    /\ UNCHANGED <<_size, _coord_limit, _pieces, heap, nextRef, result, before, calls>>

\* KeyboardInterrupt while the session waits in input(): the handler of
\* start calls exit().
CliInterrupt ==
    /\ last.pc \in {"prompt", "notice"}
    /\ last' = [last EXCEPT !.pc = "exited", !.event = "interrupt", !.exits = @ + 1]
    /\ UNCHANGED <<_size, _coord_limit, _pieces, heap, nextRef, result, before, calls>>

NextCli == CliRefresh \/ CliInput \/ CliNoticeEnter \/ CliInterrupt

SpecCli == InitCli /\ [][NextCli]_vars

\* C20. CLI session loop: the cube on display at a prompt is the current
\* one; "q" and "Q" are not dispatched and end the session with one call
\* of exit; any other text is dispatched once, and a dispatch that fails
\* shows the notice and leaves the session running with the cube as it
\* was; the session is running or has ended through exit, called once.
CliSessionLoop ==
    /\ last.pc = "prompt" => last.shown = Observed(cube)
    /\ (last.event = "input" /\ Str(last.arg) \in {"q", "Q"}) =>
           last.dispatched = 0 /\ last.pc = "exited" /\ last.exits = 1
    /\ (last.event = "input" /\ Str(last.arg) \notin {"q", "Q"}) =>
           /\ last.dispatched = 1
           /\ (result.ret # "True") => (last.notices = 1 /\ last.pc = "notice" /\ cube = before)
    /\ last.pc \in {"refresh", "prompt", "notice", "exited"}
    /\ last.pc = "exited" <=> last.exits = 1
    /\ last.pc = "exited" => last.event \in {"input", "interrupt"}
    /\ last.exits <= 1

-----------------------------------------------------------------------------
\* view.py, class Gui: the graphical session.

\* Gui.TILE_SIZE: the side of a canvas tile in pixels.
TILE_SIZE == 80

\* The sides a Gui can show: config.FRONT of __init__ and the six buttons
\* of _init_controls.
Sides == {"FRONT", "BACK", "UP", "DOWN", "LEFT", "RIGHT"}

\* Gui.COLOR_MAP: the fill of a tile by the label drawn; a label outside
\* its domain is a KeyError.
COLOR_MAP ==
    [color \in {"RED", "GREEN", "BLUE", "ORANGE", "YELLOW", "WHITE"} |->
        CASE color = "RED" -> "red" [] color = "GREEN" -> "green" [] color = "BLUE" -> "blue"
          [] color = "ORANGE" -> "orange" [] color = "YELLOW" -> "yellow" [] color = "WHITE" -> "white"]

\* The value None of _last_tile and of _get_tile_at_position; a tile is a
\* pair <<tile_x, tile_y>>.
NoTile == <<>>

\* Gui._get_tile_at_position: the first tile, in the order of the two
\* loops, that holds the pixel strictly inside it; None when the loops
\* end without a return.
_get_tile_at_position(x, y, size) ==
    LET hits == {t \in (0..(size - 1)) \X (0..(size - 1)) :
                    /\ t[1] * TILE_SIZE < x /\ x < t[1] * TILE_SIZE + TILE_SIZE
                    /\ t[2] * TILE_SIZE < y /\ y < t[2] * TILE_SIZE + TILE_SIZE}
    IN IF hits = {} THEN NoTile
       ELSE CHOOSE t \in hits : \A u \in hits : t[1] < u[1] \/ (t[1] = u[1] /\ t[2] <= u[2])

\* Gui._draw_rect: the rectangle of label at the tile of the face
\* coordinates (x, y).
_draw_rect(x, y, label, coord_limit) == [tile |-> <<x + coord_limit, y + coord_limit>>, label |-> label]

\* One iteration of the loop of Gui.refresh_cube: the rectangles it draws
\* (none or one) for the item of position and piece on the side shown.
RefreshIteration(position, piece, side, coord_limit) ==
    IF side = "FRONT" /\ position[3] = coord_limit
    THEN {_draw_rect(position[1], -position[2], piece.z, coord_limit)}
    ELSE IF side = "BACK" /\ position[3] = -coord_limit
    THEN {_draw_rect(-position[1], -position[2], piece.z, coord_limit)}
    ELSE IF side = "UP" /\ position[2] = coord_limit
    THEN {_draw_rect(position[1], position[3], piece.y, coord_limit)}
    ELSE IF side = "DOWN" /\ position[2] = -coord_limit
    THEN {_draw_rect(position[1], -position[3], piece.y, coord_limit)}
    ELSE IF side = "LEFT" /\ position[1] = -coord_limit
    THEN {_draw_rect(position[3], -position[2], piece.x, coord_limit)}
    ELSE IF side = "RIGHT" /\ position[1] = coord_limit
    THEN {_draw_rect(-position[3], -position[2], piece.x, coord_limit)}
    ELSE {}

\* Gui.refresh_cube on a canvas: the items are drawn in the order of the
\* mapping, a rectangle covering what was at its tile, until the loop ends
\* or a label is no key of COLOR_MAP.
refresh_cube(c, canvas, side, coord_limit) ==
    LET rects == [j \in 1..Len(c._pieces) |->
                     RefreshIteration(c._pieces[j].key, c.heap[c._pieces[j].ref], side, coord_limit)]
        failing == {j \in 1..Len(c._pieces) : \E r \in rects[j] : r.label \notin DOMAIN COLOR_MAP}
        drawn == UNION {{[tile |-> r.tile, color |-> COLOR_MAP[r.label]] : r \in rects[j]} :
                           j \in {k \in 1..Len(c._pieces) : \A f \in failing : k < f}}
    IN [exc |-> IF failing = {} THEN "None" ELSE "KeyError",
        canvas |-> {r \in canvas : \A d \in drawn : d.tile # r.tile} \cup drawn]

\* The eight branches of the if/elif chain of Gui._on_mouse_up, in the
\* order of the source. A condition reads
\*     _last_tile == from and this_tile in list or _last_tile == mid and this_tile == to
\* and free holds the names of its last comparison that nothing binds; ifs
\* are the if statements of the body, each a tuple of sides and a move.
DragBranches ==
    <<[from |-> <<0, 0>>, list |-> {<<1, 0>>, <<2, 0>>}, mid |-> <<1, 0>>, to |-> <<2, 0>>, free |-> {},
       ifs |-> <<[sides |-> {"FRONT", "BACK", "LEFT", "RIGHT"}, move |-> "Ui"],
                 [sides |-> {"UP"}, move |-> "Bi"], [sides |-> {"DOWN"}, move |-> "Fi"]>>],
      [from |-> <<2, 0>>, list |-> {<<1, 0>>, <<0, 0>>}, mid |-> <<1, 0>>, to |-> <<0, 0>>, free |-> {},
       ifs |-> <<[sides |-> {"FRONT", "BACK", "LEFT", "RIGHT"}, move |-> "U"],
                 [sides |-> {"UP"}, move |-> "B"], [sides |-> {"DOWN"}, move |-> "F"]>>],
      [from |-> <<0, 0>>, list |-> {<<0, 1>>, <<0, 2>>}, mid |-> <<0, 1>>, to |-> <<0, 2>>, free |-> {},
       ifs |-> <<[sides |-> {"FRONT", "UP", "BACK", "DOWN"}, move |-> "L"],
                 [sides |-> {"LEFT"}, move |-> "B"], [sides |-> {"RIGHT"}, move |-> "F"]>>],
      [from |-> <<0, 2>>, list |-> {<<0, 1>>, <<0, 0>>}, mid |-> <<0, 1>>, to |-> <<0, 0>>, free |-> {},
       ifs |-> <<[sides |-> {"FRONT", "UP", "BACK", "DOWN"}, move |-> "Li"],
                 [sides |-> {"LEFT"}, move |-> "Bi"], [sides |-> {"RIGHT"}, move |-> "Fi"]>>],
      [from |-> <<0, 2>>, list |-> {<<1, 2>>, <<2, 2>>}, mid |-> <<1, 2>>, to |-> <<2, 2>>, free |-> {},
       ifs |-> <<[sides |-> {"FRONT", "LEFT", "RIGHT", "BACK"}, move |-> "D"],
                 [sides |-> {"UP"}, move |-> "F"], [sides |-> {"DOWN"}, move |-> "B"]>>],
      [from |-> <<2, 2>>, list |-> {<<1, 2>>, <<0, 2>>}, mid |-> <<1, 2>>, to |-> <<0, 2>>, free |-> {},
       ifs |-> <<[sides |-> {"FRONT", "LEFT", "RIGHT", "BACK"}, move |-> "Di"],
                 [sides |-> {"UP"}, move |-> "Fi"], [sides |-> {"DOWN"}, move |-> "Bi"]>>],
      [from |-> <<2, 0>>, list |-> {<<2, 1>>, <<2, 2>>}, mid |-> <<2, 1>>, to |-> <<2, 2>>, free |-> {},
       ifs |-> <<[sides |-> {"FRONT", "UP", "DOWN"}, move |-> "Ri"], [sides |-> {"BACK"}, move |-> "Li"],
                 [sides |-> {"LEFT"}, move |-> "Fi"], [sides |-> {"RIGHT"}, move |-> "Bi"]>>],
      [from |-> <<2, 2>>, list |-> {<<2, 1>>, <<2, 0>>}, mid |-> <<2, 1>>, to |-> NoTile, free |-> {"o"},
       ifs |-> <<[sides |-> {"FRONT", "UP", "DOWN"}, move |-> "R"], [sides |-> {"BACK"}, move |-> "L"],
                 [sides |-> {"LEFT"}, move |-> "F"], [sides |-> {"RIGHT"}, move |-> "B"]>>]>>

\* The if statements of a branch body run one after another: the moves
\* handed to _make_move_cb, in order.
RECURSIVE BranchBody(_, _, _)
BranchBody(ifs, k, side) ==
    IF k > Len(ifs) THEN <<>>
    ELSE (IF side \in ifs[k].sides THEN <<ifs[k].move>> ELSE <<>>) \o BranchBody(ifs, k + 1, side)

\* The if/elif chain from branch k on, with the short circuit of "and" and
\* "or": the second comparison with this_tile is evaluated only when the
\* first conjunction is false and _last_tile == mid is true, and raises
\* NameError when it reads a name that nothing binds.
RECURSIVE ElifChain(_, _, _, _)
ElifChain(k, last_tile, this_tile, side) ==
    IF k > Len(DragBranches) THEN [exc |-> "None", moves |-> <<>>]
    ELSE IF last_tile = DragBranches[k].from /\ this_tile \in DragBranches[k].list
    THEN [exc |-> "None", moves |-> BranchBody(DragBranches[k].ifs, 1, side)]
    ELSE IF last_tile = DragBranches[k].mid /\ DragBranches[k].free # {}
    THEN [exc |-> "NameError", moves |-> <<>>]
    ELSE IF last_tile = DragBranches[k].mid /\ this_tile = DragBranches[k].to
    THEN [exc |-> "None", moves |-> BranchBody(DragBranches[k].ifs, 1, side)]
    ELSE ElifChain(k + 1, last_tile, this_tile, side)

\* self._make_move_cb(move) for the moves of a branch body, with
\* _make_move_cb = Controller.make_move_callback: an exception of a call
\* leaves the handler.
RECURSIVE CallbackLoop(_, _, _, _)
CallbackLoop(o, moves, k, coord_limit) ==
    IF k > Len(moves) \/ o.exc # "None" THEN o
    ELSE CallbackLoop(make_move_callback(o.cube, <<moves[k]>>, coord_limit), moves, k + 1, coord_limit)

\* The end of Gui._on_mouse_up after the chain with outcome o for the moves
\* issued: refresh_cube() with outcome drawing, then _last_tile = None. An
\* exception on the way leaves _last_tile as it was.
MouseUpEnd(o, moves, drawing, canvas, last_tile) ==
    IF o.exc # "None"
    THEN [cube |-> o.cube, exc |-> o.exc, issued |-> moves, redraws |-> 0,
          canvas |-> canvas, _last_tile |-> last_tile]
    ELSE [cube |-> o.cube, exc |-> drawing.exc, issued |-> moves, redraws |-> 1,
          canvas |-> drawing.canvas,
          _last_tile |-> IF drawing.exc = "None" THEN NoTile ELSE last_tile]

\* The moves of a branch body have been issued with outcome o: the handler
\* goes on to refresh_cube() on the cube they left.
MouseUpIssued(o, moves, canvas, side, last_tile, coord_limit) ==
    MouseUpEnd(o, moves, refresh_cube(o.cube, canvas, side, coord_limit), canvas, last_tile)

\* The chain has ended with outcome chain on cube c: its exception leaves
\* the handler, its moves are issued.
MouseUpChain(c, chain, canvas, side, last_tile, coord_limit) ==
    IF chain.exc # "None"
    THEN [cube |-> c, exc |-> chain.exc, issued |-> <<>>, redraws |-> 0,
          canvas |-> canvas, _last_tile |-> last_tile]
    ELSE MouseUpIssued(CallbackLoop(Outcome(c, "None", "None"), chain.moves, 1, coord_limit),
                       chain.moves, canvas, side, last_tile, coord_limit)

\* Gui._on_mouse_up for a release at tile this_tile: nothing happens when
\* no press tile is remembered.
_on_mouse_up(c, canvas, side, last_tile, this_tile, coord_limit) ==
    IF last_tile = NoTile
    THEN [cube |-> c, exc |-> "None", issued |-> <<>>, redraws |-> 0,
          canvas |-> canvas, _last_tile |-> last_tile]
    ELSE MouseUpChain(c, ElifChain(1, last_tile, this_tile, side), canvas, side, last_tile, coord_limit)

\* Pixel coordinates of a mouse event on the canvas of a size-3 cube: in
\* the first tile, on the line between the first two tiles, in the second
\* and in the third tile.
Pixels == {40, 80, 120, 200}

\* The graphical session, Gui.start(make_move, exit) with make_move =
\* Controller.make_move_callback. last is the frame of start: pc is where
\* the session stands ("start": about to call refresh_cube; "mainloop": in
\* tk.mainloop(), which reports an exception of a handler and goes on;
\* "raised": an exception has left start), _side and _last_tile are the
\* attributes of the Gui and canvas is what the canvas shows; event names
\* the last handler run, tile the press tile it found remembered,
\* this_tile the tile of its event, issued the moves it handed to
\* make_move and redraws its calls of refresh_cube. result.exc is the
\* exception that ended the handler. calls counts the releases on the
\* canvas.
InitGui ==
    /\ _size = 3
    /\ _coord_limit = _size \div 2
    /\ _pieces = Rubik(_size)._pieces
    /\ heap = Rubik(_size).heap
    /\ nextRef = Rubik(_size).nextRef
    /\ last = [op |-> "Gui.start", pc |-> "start", event |-> "__init__", _side |-> "FRONT",
               _last_tile |-> NoTile, canvas |-> {}, tile |-> NoTile, this_tile |-> NoTile,
               issued |-> <<>>, redraws |-> 0]
    /\ result = [ret |-> "None", exc |-> "None"]
    /\ before = Rubik(_size)
    /\ calls = 0

\* A step that leaves the cube alone has ended with drawing, the outcome of
\* its call of refresh_cube: an exception leaves start before the main
\* loop runs and is reported by the main loop once it runs.
GuiRedraw(event, side, drawing) ==
    /\ last' = [last EXCEPT !.pc = IF event = "start" /\ drawing.exc # "None" THEN "raised" ELSE "mainloop",
                            !.event = event, !._side = side, !.canvas = drawing.canvas,
                            !.tile = NoTile, !.this_tile = NoTile, !.issued = <<>>, !.redraws = 1]
    /\ result' = [ret |-> "None", exc |-> drawing.exc]
    /\ UNCHANGED <<_size, _coord_limit, _pieces, heap, nextRef, before, calls>>

\* Gui.start: refresh_cube(), then tk.mainloop().
GuiStart ==
    /\ last.pc = "start"
    /\ GuiRedraw("start", last._side, refresh_cube(cube, last.canvas, last._side, _coord_limit))

\* Gui._on_change_side, the command of a button.
GuiChangeSide ==
    /\ last.pc = "mainloop"
    /\ \E side \in Sides :
           GuiRedraw("change_side", side, refresh_cube(cube, last.canvas, side, _coord_limit))

\* Gui._on_mouse_down: a press on the canvas at pixel (x, y).
GuiMouseDown ==
    /\ last.pc = "mainloop"
    /\ \E x, y \in Pixels :
           last' = [last EXCEPT !.event = "mouse_down",
                                !._last_tile = _get_tile_at_position(x, y, _size),
                                !.tile = NoTile, !.this_tile = _get_tile_at_position(x, y, _size),
                                !.issued = <<>>, !.redraws = 0]
    /\ result' = [ret |-> "None", exc |-> "None"]
    /\ UNCHANGED <<_size, _coord_limit, _pieces, heap, nextRef, before, calls>>

\* Gui._on_mouse_up_global for the release of a press made outside the
\* canvas: the widget under the pointer is none, the canvas or another.
GuiMouseUpGlobal ==
    /\ last.pc = "mainloop"
    /\ \E target \in {"None", "canvas", "button"} :
           last' = [last EXCEPT !.event = "mouse_up_global",
                                !._last_tile = IF target \notin {"None", "canvas"} THEN NoTile ELSE @,
                                !.tile = NoTile, !.this_tile = NoTile, !.issued = <<>>, !.redraws = 0]
    /\ result' = [ret |-> "None", exc |-> "None"]
    /\ UNCHANGED <<_size, _coord_limit, _pieces, heap, nextRef, before, calls>>

\* The handler of a release on the canvas has ended with outcome h. The
\* window's _on_mouse_up_global runs after it when it has not raised and
\* then finds _last_tile None already, or the pointer on the canvas.
GuiReleased(h, this_tile) ==
    /\ _pieces' = h.cube._pieces
    /\ heap' = h.cube.heap
    /\ nextRef' = h.cube.nextRef
    /\ result' = [ret |-> "None", exc |-> h.exc]
    /\ before' = cube
    /\ last' = [last EXCEPT !.event = "mouse_up", !._last_tile = h._last_tile, !.canvas = h.canvas,
                            !.tile = last._last_tile, !.this_tile = this_tile,
                            !.issued = h.issued, !.redraws = h.redraws]

\* Gui._on_mouse_up: a release on the canvas at pixel (x, y).
GuiMouseUp ==
    /\ last.pc = "mainloop"
    /\ calls < MaxCalls
    /\ calls' = calls + 1
    /\ \E x, y \in Pixels :
           GuiReleased(_on_mouse_up(cube, last.canvas, last._side, last._last_tile,
                                    _get_tile_at_position(x, y, _size), _coord_limit),
                       _get_tile_at_position(x, y, _size))
    /\ UNCHANGED <<_size, _coord_limit>>

NextGui == GuiStart \/ GuiChangeSide \/ GuiMouseDown \/ GuiMouseUpGlobal \/ GuiMouseUp

SpecGui == InitGui /\ [][NextGui]_vars

\* The moves of a drag up the right column, from tile (2, 2) to tile
\* (2, 1), by the side shown.
RightColumnUp ==
    [side \in Sides |-> CASE side \in {"FRONT", "UP", "DOWN"} -> <<"R">>
                          [] side = "BACK" -> <<"L">>
                          [] side = "LEFT" -> <<"F">>
                          [] side = "RIGHT" -> <<"B">>]

\* C21. GUI drag handling: on a size-3 cube, whatever side is shown, the
\* handler of a release at a canvas tile after a press at a canvas tile
\* ends without an exception, has issued at most one move, has redrawn the
\* cube as it now is and has reset the remembered press tile to none; a
\* drag from tile (2, 1) to tile (2, 0) has issued the move that a drag
\* from (2, 2) to (2, 1) issues: R on FRONT, UP and DOWN, L on BACK, F on
\* LEFT, B on RIGHT.
GuiDragHandling ==
    (last.event = "mouse_up" /\ _size = 3 /\ last.tile # NoTile /\ last.this_tile # NoTile) =>
        /\ result.exc = "None"
        /\ Len(last.issued) <= 1
        /\ last.redraws = 1
        /\ last.canvas = refresh_cube(cube, {}, last._side, _coord_limit).canvas
        /\ last._last_tile = NoTile
        /\ (last.tile = <<2, 1>> /\ last.this_tile = <<2, 0>>) =>
               /\ ElifChain(1, <<2, 2>>, <<2, 1>>, last._side).moves = RightColumnUp[last._side]
               /\ last.issued = RightColumnUp[last._side]

====
